---- MODULE Spec2Model ----
(***************************************************************************)
(* Kairos check-in subsystem: the hourly check-in scheduler, the check-in  *)
(* lifecycle manager (dispatch, pending pointer, Sleep/Wake, staleness     *)
(* sweep) and the reply path of the bot (handle_text -> analyze_activity). *)
(*                                                                         *)
(* Time is the naive local clock datetime.now(), in minutes since midnight *)
(* of day 0.  SQLite stores the timestamps as ISO strings and compares     *)
(* them as strings; for timestamps of one format that order is the order   *)
(* of the instants, which is the order of the integers used here.          *)
(*                                                                         *)
(* The clock is observed at the instants at which a timer can be due (the  *)
(* cron grid and the one-shot retry dates).  A user event that happens     *)
(* between two such instants is modelled at the later one, before that     *)
(* instant's timers: every comparison the code makes gives the same result.*)
(* So at each instant the user's events come first, then the timers that   *)
(* are due; only a reply already in flight (handle_text suspended at its   *)
(* await) may finish between or after the timers.                          *)
(***************************************************************************)
EXTENDS Integers, Sequences, FiniteSets, TLC

VARIABLES
    now,                  \* datetime.now(), minutes since midnight of day 0
    boot,                 \* the instant at which the process came up
    user_config,          \* table user_config: <<>> or <<row>> (chat_id is UNIQUE, one recipient)
    check_ins,            \* table check_ins: row i has id i (AUTOINCREMENT)
    activity_logs,        \* table activity_logs, in insertion order
    pending_check_in_id,  \* CheckInManager.pending_check_in_id (process memory)
    running,              \* CheckInScheduler.scheduler.running
    fired,                \* cron jobs that have run at the instant `now`
    retry_jobs,           \* one-shot 'date' jobs: [run_date, retry_count]
    replying,             \* handle_text suspended at its first await: the id it read
    faults,               \* store writes that have failed so far
    lastOp,               \* the operation that ran last
    ret,                  \* what the last handle_wake_button returned, in tenths of an hour
    busy_seen,            \* times _is_user_busy has answered True so far
    analysis,             \* what analyze_activity returned, when the last operation called it
    caught,               \* the exceptions the last operation caught: where they were raised
    cron_jobs             \* ids of the cron jobs in the scheduler's job store

vars == <<now, boot, user_config, check_ins, activity_logs, pending_check_in_id,
          running, fired, retry_jobs, replying, faults, lastOp, ret, busy_seen,
          analysis, caught, cron_jobs>>

-----------------------------------------------------------------------------
(* Bounds of the model *)

\* The clock stops after this many half-hours past the start instant.
MaxHalfHours == 6

\* At most this many store writes fail in one run.
MaxFaults == 1

\* The busy predicate answers True at most this many times in one run: enough
\* for the hourly tick and every retry of one chain.
MaxBusy == 4

\* The instants at which the process can come up (06:30 and 07:30 of day 0,
\* so that check-ins fall before and after the default wake time).
StartTimes == {6 * 60 + 30, 7 * 60 + 30}

-----------------------------------------------------------------------------
(* Program constants *)

None == 0                \* Python None of pending_check_in_id (ids start at 1)
Null == -1               \* SQL NULL of a TIMESTAMP column
StaleMinutes == 90       \* timedelta(minutes=90)
HourlyPeriod == 60       \* CronTrigger(minute=0)
CleanupPeriod == 30      \* CronTrigger(minute='*/30')
FirstRetryMinutes == 5   \* timedelta(minutes=5), and next_interval for retry_count 1
NextRetryMinutes == 10   \* next_interval for retry_count > 1
MaxRetries == 3          \* if retry_count > 3
DefaultWakeHour == 8     \* default_wake_time '08:00'
DefaultWakeMinute == 0
MinutesPerDay == 24 * 60

Statuses == {"pending", "sent", "completed", "missed", "sleeping"}

\* What the classifier call can do: answer with a productivity type (one
\* stands for the three), answer with text that is no JSON, or raise.
ClassifierOutcomes == {"aligned", "malformed", "error"}

\* The neutral fallback judgment of analyze_activity.
fallback_analysis == [productivity_type |-> "beneficial", alignment_score |-> 5]

\* A judgment of the classifier: a JSON object, of a type and score of its own.
classifier_analysis == [productivity_type |-> "aligned", alignment_score |-> 9]

\* No call of analyze_activity.
no_analysis == [productivity_type |-> "none", alignment_score |-> 0]

-----------------------------------------------------------------------------
(* Helpers over the tables *)

\* An operation that does not call analyze_activity and catches no exception.
quiet == analysis' = no_analysis /\ caught' = {}

Ids == DOMAIN check_ins

HasConfig == user_config # <<>>

SetRow(row) == <<row>>

SeqMax(S) == CHOOSE x \in S : \A y \in S : y <= x

SeqMin(S) == CHOOSE x \in S : \A y \in S : x <= y

\* today = datetime.now().date(); datetime.combine(today, dt_time(h, m))
default_wake_time(t) ==
    (t \div MinutesPerDay) * MinutesPerDay + DefaultWakeHour * 60 + DefaultWakeMinute

\* retroactive_start = max(sleep_start_time, default_wake_time)
retroactive_start(sleep_start, t) ==
    IF sleep_start >= default_wake_time(t) THEN sleep_start ELSE default_wake_time(t)

\* round((now - sleep_start_time).total_seconds() / 3600, 1), in tenths of an
\* hour: Python rounds a float to the nearest tenth, an exact half to even.
hours_slept(sleep_start, t) ==
    LET m == t - sleep_start
        q == m \div 6
        r == m % 6
    IN  IF r < 3 THEN q
        ELSE IF r > 3 THEN q + 1
        ELSE IF q % 2 = 0 THEN q ELSE q + 1


-----------------------------------------------------------------------------
(* CheckInManager (src/src/check_in_manager.py) *)

\* Seeded fault: the record inserted as not yet sent.
new_check_in_unsent(t) ==
    [scheduled_time |-> t, sent_time |-> Null, response_time |-> Null, status |-> "pending"]

\* INSERT INTO check_ins (scheduled_time, sent_time, status) VALUES (now, now, 'sent')
new_check_in(t) ==
    [scheduled_time |-> t, sent_time |-> t, response_time |-> Null, status |-> "sent"]

\* The table after the INSERT, and cursor.lastrowid
insert_check_in(recs, t) == Append(recs, new_check_in(t))

lastrowid(recs) == Len(recs)

\* SELECT id FROM check_ins WHERE status = 'sent' ORDER BY sent_time DESC LIMIT 1:
\* the rows the query may return (SQLite does not order rows of equal sent_time).
most_recent_sent(recs) ==
    {i \in DOMAIN recs :
        /\ recs[i].status = "sent"
        /\ \A j \in DOMAIN recs :
              recs[j].status = "sent" => recs[j].sent_time <= recs[i].sent_time}

\* get_pending_check_in: the values it may return; it leaves the pointer at
\* the value it returns.
get_pending_check_in(ptr, recs) ==
    IF ptr # None THEN {ptr}
    ELSE IF most_recent_sent(recs) # {} THEN most_recent_sent(recs)
    ELSE {None}

\* threshold = datetime.now() - timedelta(minutes=90);
\* UPDATE check_ins SET status = 'missed' WHERE status = 'sent' AND sent_time < threshold
\* Seeded fault: the threshold taken inclusive (sent_time <= threshold).
is_stale_inclusive(rec, t) == rec.status = "sent" /\ rec.sent_time <= t - StaleMinutes

\* Seeded fault: a sweep that finds nothing stale.
is_stale_never(rec, t) == FALSE

\* Seeded fault: the UPDATE without its condition on sent_time.
is_stale_at_any_age(rec, t) == rec.status = "sent"

is_stale(rec, t) == rec.status = "sent" /\ rec.sent_time < t - StaleMinutes

\* Seeded fault: a sweep that marks in two passes, 'pending' on the first
\* and 'missed' on the next.
mark_stale_in_two_passes(recs, t) ==
    [i \in DOMAIN recs |->
        IF is_stale(recs[i], t) THEN [recs[i] EXCEPT !.status = "pending"]
        ELSE IF recs[i].status = "pending" THEN [recs[i] EXCEPT !.status = "missed"]
        ELSE recs[i]]

mark_stale_as_missed(recs, t) ==
    [i \in DOMAIN recs |->
        IF is_stale(recs[i], t) THEN [recs[i] EXCEPT !.status = "missed"] ELSE recs[i]]

\* Seeded fault: the window without its lower end.
in_window_no_lower(rec, lo, t) == rec.scheduled_time <= t

\* WHERE scheduled_time >= retroactive_start AND scheduled_time <= now
in_window(rec, lo, t) == rec.scheduled_time >= lo /\ rec.scheduled_time <= t

\* Seeded fault: the UPDATE without its status filter.
wake_matches_any_status(rec, lo, t) ==
    rec.scheduled_time >= lo /\ rec.scheduled_time <= t

\* ... AND status IN ('missed', 'pending')
wake_matches(rec, lo, t) == in_window(rec, lo, t) /\ rec.status \in {"missed", "pending"}

\* UPDATE check_ins SET status = 'sleeping' WHERE ...
mark_sleeping(recs, lo, t) ==
    [i \in DOMAIN recs |->
        IF wake_matches(recs[i], lo, t) THEN [recs[i] EXCEPT !.status = "sleeping"]
        ELSE recs[i]]

\* Seeded fault: the insert without the look for an existing entry.
has_log_never(logs, id) == FALSE

\* SELECT id FROM activity_logs WHERE check_in_id = ?
has_log(logs, id) == \E k \in DOMAIN logs : logs[k].check_in_id = id

sleeping_log(rec, id) ==
    [timestamp |-> rec.scheduled_time, productivity_type |-> "sleeping", check_in_id |-> id]

\* for check_in_id, scheduled_time in sleeping_check_ins: insert the entry
\* unless one exists (rows taken in id order, from row i on).
RECURSIVE synthesize_logs(_, _, _, _, _)
synthesize_logs(recs, logs, lo, t, i) ==
    IF i > Len(recs) THEN logs
    ELSE synthesize_logs(
            recs,
            IF recs[i].status = "sleeping" /\ in_window(recs[i], lo, t) /\ ~has_log(logs, i)
            THEN Append(logs, sleeping_log(recs[i], i))
            ELSE logs,
            lo, t, i + 1)

\* send_check_in: the record is inserted and the pointer set before the prompt
\* is handed to the transport.  It raises what the INSERT or the transport
\* raises: a failed INSERT leaves nothing behind, a failed delivery leaves the
\* record and the pointer.
send_check_in(fault) ==
    IF fault = "insert"
    THEN UNCHANGED <<check_ins, pending_check_in_id>>
    ELSE /\ check_ins' = insert_check_in(check_ins, now)
         /\ pending_check_in_id' = lastrowid(insert_check_in(check_ins, now))

\* A user event is taken before the timers of its instant: an update handler
\* starts when no other update is being handled (the application handles
\* updates one at a time) and no timer of this instant has run yet.
user_turn == replying = None /\ fired = {}

\* Seeded fault: a Sleep pressed while asleep that keeps the earlier start.
sleep_row_keep_start(row, t) ==
    IF row.is_sleeping THEN row ELSE [row EXCEPT !.is_sleeping = TRUE, !.sleep_start_time = t]

\* Seeded fault: the flag set without the start instant.
sleep_row_flag_only(row, t) == [row EXCEPT !.is_sleeping = TRUE]

\* UPDATE user_config SET is_sleeping = 1, sleep_start_time = ? WHERE chat_id = ?
sleep_row(row, t) == [row EXCEPT !.is_sleeping = TRUE, !.sleep_start_time = t]

\* Seeded fault: the wake instant recorded without clearing the flag.
wake_row_still_asleep(row, t) == [row EXCEPT !.last_wake_time = t]

\* UPDATE user_config SET is_sleeping = 0, last_wake_time = ? WHERE chat_id = ?
wake_row(row, t) == [row EXCEPT !.is_sleeping = FALSE, !.last_wake_time = t]

handle_sleep_button ==
    /\ user_turn
    /\ user_config' =
          IF HasConfig THEN SetRow(sleep_row(user_config[1], now)) ELSE user_config
    /\ lastOp' = "handle_sleep_button"
    /\ quiet
    /\ UNCHANGED <<now, boot, check_ins, activity_logs, pending_check_in_id, running, fired,
                   retry_jobs, replying, faults, ret, busy_seen, cron_jobs>>

\* Seeded fault: the guard that only looks for the row.
no_sleep_start_row_only == ~HasConfig

\* if not row or not row[0]
no_sleep_start == ~HasConfig \/ user_config[1].sleep_start_time = Null

handle_wake_button ==
    /\ user_turn
    /\ lastOp' = "handle_wake_button"
    /\ IF no_sleep_start
       THEN /\ ret' = 0
            /\ UNCHANGED <<user_config, check_ins, activity_logs>>
       ELSE LET start == user_config[1].sleep_start_time
                lo    == retroactive_start(start, now)
                recs  == mark_sleeping(check_ins, lo, now)
            IN  /\ check_ins' = recs
                /\ activity_logs' = synthesize_logs(recs, activity_logs, lo, now, 1)
                /\ user_config' = SetRow(wake_row(user_config[1], now))
                /\ ret' = hours_slept(start, now)
    /\ quiet
    /\ UNCHANGED <<now, boot, pending_check_in_id, running, fired, retry_jobs, replying,
                   faults, busy_seen, cron_jobs>>

-----------------------------------------------------------------------------
(* ActivityAnalyzer (src/src/activity_analyzer.py) *)

\* The judgment that is saved: the classifier's, or the neutral fallback when
\* its text does not parse.
judged_type(outcome) == IF outcome = "malformed" THEN "beneficial" ELSE outcome

\* Seeded fault: the entry saved without its check_in_id.
save_activity_log_unlinked(logs, id, outcome, t) ==
    Append(logs, [timestamp |-> t, productivity_type |-> judged_type(outcome),
                  check_in_id |-> None])

\* _save_activity_log: INSERT INTO activity_logs ..., with no look at the rows there
save_activity_log(logs, id, outcome, t) ==
    Append(logs, [timestamp |-> t, productivity_type |-> judged_type(outcome),
                  check_in_id |-> id])

\* Seeded fault: the UPDATE with the record's scheduled hour, not the clock,
\* as response_time.
update_check_in_status_hour(recs, id, status, t, update_ok) ==
    [i \in DOMAIN recs |->
        IF i = id /\ update_ok
        THEN [recs[i] EXCEPT !.status = status,
                             !.response_time = recs[i].scheduled_time - HourlyPeriod]
        ELSE recs[i]]

\* _update_check_in_status(check_in_id, 'completed'):
\* UPDATE check_ins SET status = ?, response_time = ? WHERE id = ?
\* A failure of the UPDATE is logged and not raised: the row stays as it was.
update_check_in_status(recs, id, status, t, update_ok) ==
    [i \in DOMAIN recs |->
        IF i = id /\ update_ok
        THEN [recs[i] EXCEPT !.status = status, !.response_time = t]
        ELSE recs[i]]

\* Seeded fault: text that is no JSON handed on as it is.
parse_response_unchecked(outcome) ==
    [productivity_type |-> outcome, alignment_score |-> 0]

\* json.loads(response_text), and the fallback on json.JSONDecodeError
parse_response(outcome) ==
    IF outcome = "malformed" THEN fallback_analysis ELSE classifier_analysis

\* analyze_activity: when the classifier raises, nothing is written and the
\* fallback judgment is returned; otherwise the entry is saved, then the
\* check-in is marked completed, and the parsed judgment is returned.  A
\* failure of the INSERT is raised by _save_activity_log and caught here: the
\* UPDATE is not reached and the fallback judgment is returned.
analyze_activity(outcome, id, save_ok, update_ok) ==
    LET json_caught == IF outcome = "malformed" THEN {"json"} ELSE {}
    IN  IF outcome = "error"
        THEN /\ analysis' = fallback_analysis
             /\ caught' = {"classifier"}
             /\ UNCHANGED <<check_ins, activity_logs>>
        ELSE IF ~save_ok
        THEN /\ analysis' = fallback_analysis
             /\ caught' = json_caught \cup {"save"}
             /\ UNCHANGED <<check_ins, activity_logs>>
        ELSE /\ analysis' = parse_response(outcome)
             /\ caught' = json_caught \cup (IF update_ok THEN {} ELSE {"update"})
             /\ activity_logs' = save_activity_log(activity_logs, id, outcome, now)
             /\ check_ins' = update_check_in_status(check_ins, id, "completed", now, update_ok)

-----------------------------------------------------------------------------
(* bot.py *)

\* /start: the first one inserts the user_config row and starts the scheduler.
\* The cron jobs' first run is their next match after the start instant.
start ==
    /\ user_turn
    /\ lastOp' = "start"
    /\ IF HasConfig
       THEN UNCHANGED <<user_config, running, fired, cron_jobs>>
       ELSE /\ user_config' = SetRow([is_sleeping |-> FALSE, sleep_start_time |-> Null,
                                      last_wake_time |-> Null])
            /\ running' = TRUE
            /\ cron_jobs' = {"hourly_check_in", "cleanup_check_ins"}
            /\ fired' = IF running THEN fired ELSE {"hourly_check_in", "cleanup_check_ins"}
    /\ quiet
    /\ UNCHANGED <<now, boot, check_ins, activity_logs, pending_check_in_id, retry_jobs,
                   replying, faults, ret, busy_seen>>

\* handle_text up to its first await (reply_text): with no conversation state
\* active it asks for the pending check-in; with none pending the text goes on
\* to the other handlers, which do not touch the check-in tables.
handle_text ==
    /\ user_turn
    /\ lastOp' = "handle_text"
    /\ \E id \in get_pending_check_in(pending_check_in_id, check_ins) :
          /\ pending_check_in_id' = id
          /\ replying' = id
    /\ quiet
    /\ UNCHANGED <<now, boot, user_config, check_ins, activity_logs, running, fired,
                   retry_jobs, faults, ret, busy_seen, cron_jobs>>

\* handle_text from the await on: analyze_activity, then clear_pending_check_in
\* (on both the normal and the except path).
handle_text_reply(outcome, save_ok, update_ok) ==
    /\ replying # None
    /\ lastOp' = "handle_text_reply"
    /\ (save_ok /\ update_ok) \/ faults < MaxFaults
    /\ faults' = IF save_ok /\ update_ok THEN faults ELSE faults + 1
    /\ analyze_activity(outcome, replying, save_ok, update_ok)
    /\ pending_check_in_id' = None
    /\ replying' = None
    /\ UNCHANGED <<now, boot, user_config, running, fired, retry_jobs, ret, busy_seen, cron_jobs>>

-----------------------------------------------------------------------------
(* CheckInScheduler (src/src/check_in_scheduler.py) *)

\* What can fail inside a tick: the SELECT of the recipient, the SELECT of
\* the sleep flag, the INSERT of the check-in, the delivery of the prompt, the
\* UPDATE of the sweep.
SendFaults == {"insert", "transport"}

TickFaults == {"none", "chat_lookup", "sleep_lookup"} \cup SendFaults

SweepFaults == {"none", "sweep"}

\* _get_configured_chat_id: a row with check_ins_enabled = 1 (the column is
\* set to 1 on insert and never written again); None when the query raises
get_configured_chat_id(fault) == HasConfig /\ fault # "chat_lookup"

\* _is_user_sleeping; False when the query raises
is_user_sleeping(fault) ==
    HasConfig /\ user_config[1].is_sleeping /\ fault # "sleep_lookup"

\* _is_user_busy: the stub of the source
is_user_busy == FALSE

\* Seeded fault: the busy check made without the sleep check before it.
busy_asked_while_asleep(fault) == get_configured_chat_id(fault)

\* _send_hourly_check_in reaches its busy check when there is a recipient and
\* the recipient is not asleep.
busy_asked_by_tick(fault) == get_configured_chat_id(fault) /\ ~is_user_sleeping(fault)

\* Seeded fault: a job that is taken out of the job store when its run ends.
jobs_after_run_once(jobs, id) == jobs \ {id}

\* A cron job stays in the job store when a run of it ends: the callback has
\* caught what was raised and returns.
jobs_after_run(jobs, id) == jobs

\* Seeded fault: the first retry scheduled as if it were the second.
first_retry_as_second(t) == [run_date |-> t + NextRetryMinutes, retry_count |-> 2]

\* add_job(self._retry_check_in, 'date', run_date=now + 5 minutes, args=[chat_id, 1])
first_retry(t) == [run_date |-> t + FirstRetryMinutes, retry_count |-> 1]

\* The bookkeeping of a timer callback in which `fault` is raised and caught.
tick_catches(fault) ==
    /\ fault # "none" => faults < MaxFaults
    /\ faults' = IF fault = "none" THEN faults ELSE faults + 1
    /\ caught' = IF fault = "none" THEN {} ELSE {fault}
    /\ analysis' = no_analysis

\* _send_hourly_check_in, run by CronTrigger(minute=0)
send_hourly_check_in(busy, fault) ==
    /\ running
    /\ "hourly_check_in" \in cron_jobs
    /\ now % HourlyPeriod = 0
    /\ "hourly_check_in" \notin fired
    /\ fired' = fired \cup {"hourly_check_in"}
    /\ lastOp' = "send_hourly_check_in"
    /\ busy => busy_seen < MaxBusy
    /\ fault = "sleep_lookup" => HasConfig
    /\ fault \in SendFaults => busy_asked_by_tick(fault) /\ ~busy
    /\ tick_catches(fault)
    /\ IF ~busy_asked_by_tick(fault)
       THEN UNCHANGED <<check_ins, pending_check_in_id, retry_jobs>>
       ELSE IF busy
       THEN /\ retry_jobs' = retry_jobs \cup {first_retry(now)}
            /\ UNCHANGED <<check_ins, pending_check_in_id>>
       ELSE /\ send_check_in(fault)
            /\ UNCHANGED retry_jobs
    /\ busy_seen' = IF busy_asked_by_tick(fault) /\ busy THEN busy_seen + 1 ELSE busy_seen
    /\ cron_jobs' = jobs_after_run(cron_jobs, "hourly_check_in")
    /\ UNCHANGED <<now, boot, user_config, activity_logs, running, replying, ret>>

\* Seeded fault: a chain that is never given up.
max_retries_never_reached(retry_count) == FALSE

\* if retry_count > 3: return
max_retries_reached(retry_count) == retry_count > MaxRetries

\* next_interval = 5 if retry_count == 1 else 10
next_interval(retry_count) ==
    IF retry_count = 1 THEN FirstRetryMinutes ELSE NextRetryMinutes

\* _retry_check_in(chat_id, retry_count), run once at its run_date
retry_check_in(job, busy, fault) ==
    /\ running
    /\ job \in retry_jobs
    /\ job.run_date = now
    /\ lastOp' = "retry_check_in"
    /\ busy => busy_seen < MaxBusy
    /\ fault # "none" => ~max_retries_reached(job.retry_count) /\ ~busy
    /\ tick_catches(fault)
    /\ busy_seen' = IF ~max_retries_reached(job.retry_count) /\ busy
                     THEN busy_seen + 1 ELSE busy_seen
    /\ IF max_retries_reached(job.retry_count)
       THEN /\ retry_jobs' = retry_jobs \ {job}
            /\ UNCHANGED <<check_ins, pending_check_in_id>>
       ELSE IF busy
       THEN /\ retry_jobs' = (retry_jobs \ {job}) \cup
                   {[run_date |-> now + next_interval(job.retry_count),
                     retry_count |-> job.retry_count + 1]}
            /\ UNCHANGED <<check_ins, pending_check_in_id>>
       ELSE /\ send_check_in(fault)
            /\ retry_jobs' = retry_jobs \ {job}
    /\ UNCHANGED <<now, boot, user_config, activity_logs, running, fired, replying, ret,
                   cron_jobs>>

\* _cleanup_stale_check_ins, run by CronTrigger(minute='*/30'); a failure of
\* the UPDATE is caught and logged by mark_stale_as_missed.
cleanup_stale_check_ins(fault) ==
    /\ running
    /\ "cleanup_check_ins" \in cron_jobs
    /\ now % CleanupPeriod = 0
    /\ "cleanup_check_ins" \notin fired
    /\ fired' = fired \cup {"cleanup_check_ins"}
    /\ lastOp' = "cleanup_stale_check_ins"
    /\ tick_catches(fault)
    /\ check_ins' = IF fault = "sweep" THEN check_ins ELSE mark_stale_as_missed(check_ins, now)
    /\ cron_jobs' = jobs_after_run(cron_jobs, "cleanup_check_ins")
    /\ UNCHANGED <<now, boot, user_config, activity_logs, pending_check_in_id, running,
                   retry_jobs, replying, ret, busy_seen>>

-----------------------------------------------------------------------------
(* The clock *)

\* The cron jobs and retry jobs that are due at `now` and have not run.
timers_due ==
    /\ running
    /\ \/ now % HourlyPeriod = 0 /\ "hourly_check_in" \in cron_jobs \ fired
       \/ now % CleanupPeriod = 0 /\ "cleanup_check_ins" \in cron_jobs \ fired
       \/ \E job \in retry_jobs : job.run_date <= now

next_instant ==
    SeqMin({((now \div CleanupPeriod) + 1) * CleanupPeriod}
           \cup {job.run_date : job \in {j \in retry_jobs : j.run_date > now}})

horizon == boot + MaxHalfHours * CleanupPeriod

\* Time passes to the next instant at which a timer can be due; the scheduler
\* runs every job that is due before the clock moves on, and a reply in flight
\* is finished first.
advance ==
    /\ replying = None
    /\ ~timers_due
    /\ next_instant <= horizon
    /\ now' = next_instant
    /\ fired' = {}
    /\ lastOp' = "advance"
    /\ quiet
    /\ UNCHANGED <<boot, user_config, check_ins, activity_logs, pending_check_in_id,
                   running, retry_jobs, replying, faults, ret, busy_seen, cron_jobs>>

-----------------------------------------------------------------------------
(* The specification *)

\* A fresh database (the migration creates the tables empty), a new process.
Init ==
    /\ now \in StartTimes
    /\ boot = now
    /\ user_config = <<>>
    /\ check_ins = <<>>
    /\ activity_logs = <<>>
    /\ pending_check_in_id = None
    /\ running = FALSE
    /\ fired = {}
    /\ retry_jobs = {}
    /\ replying = None
    /\ faults = 0
    /\ lastOp = "init"
    /\ ret = 0
    /\ busy_seen = 0
    /\ analysis = no_analysis
    /\ caught = {}
    /\ cron_jobs = {}

\* The program with a store whose writes succeed.  With the busy stub of the
\* source no retry job is ever scheduled, so retry_check_in has nothing to run.
Next ==
    \/ start
    \/ handle_text
    \/ \E outcome \in ClassifierOutcomes : handle_text_reply(outcome, TRUE, TRUE)
    \/ handle_sleep_button
    \/ handle_wake_button
    \/ send_hourly_check_in(is_user_busy, "none")
    \/ cleanup_stale_check_ins("none")
    \/ advance

Spec == Init /\ [][Next]_vars

\* The scheduling of the event loop: the clock moves on, the scheduler runs
\* every job that is due, and a reply suspended at its await is resumed.  The
\* user is free never to act.
Fairness ==
    /\ WF_vars(advance)
    /\ WF_vars(send_hourly_check_in(is_user_busy, "none"))
    /\ WF_vars(cleanup_stale_check_ins("none"))
    /\ WF_vars(\E outcome \in ClassifierOutcomes : handle_text_reply(outcome, TRUE, TRUE))

\* Dispatch, replies and the sweep under that scheduling.  The Sleep/Wake
\* buttons are left out: neither of them changes a record that is 'sent', and
\* the sweep does not read the recipient's config.
NextLive ==
    \/ start
    \/ handle_text
    \/ \E outcome \in ClassifierOutcomes : handle_text_reply(outcome, TRUE, TRUE)
    \/ send_hourly_check_in(is_user_busy, "none")
    \/ cleanup_stale_check_ins("none")
    \/ advance

SpecLive == Init /\ [][NextLive]_vars /\ Fairness

\* The same program over a store whose UPDATE of the check-in may fail (the
\* failure _update_check_in_status logs and does not raise).
NextFaults ==
    \/ Next
    \/ \E outcome \in ClassifierOutcomes \ {"error"} : handle_text_reply(outcome, TRUE, FALSE)

SpecFaults == Init /\ [][NextFaults]_vars

\* The dispatch and reply paths over a store whose INSERT of the activity log
\* and UPDATE of the check-in may fail.  The Sleep/Wake buttons are left out:
\* nothing on the reply path reads the recipient's config.
NextReplies ==
    \/ start
    \/ handle_text
    \/ \E outcome \in ClassifierOutcomes : handle_text_reply(outcome, TRUE, TRUE)
    \/ \E outcome \in ClassifierOutcomes \ {"error"} :
          \/ handle_text_reply(outcome, TRUE, FALSE)
          \/ handle_text_reply(outcome, FALSE, TRUE)
    \/ send_hourly_check_in(is_user_busy, "none")
    \/ cleanup_stale_check_ins("none")
    \/ advance

SpecReplies == Init /\ [][NextReplies]_vars

\* The scheduler and the Sleep/Wake buttons with the busy predicate an input
\* of the environment, as its interface allows (the source's stub answers
\* False).  The reply path is left out: no decision of the scheduler reads a
\* check-in record, an activity log entry or the pending pointer.
NextBusy ==
    \/ start
    \/ handle_sleep_button
    \/ handle_wake_button
    \/ \E busy \in BOOLEAN : send_hourly_check_in(busy, "none")
    \/ \E job \in retry_jobs : \E busy \in BOOLEAN : retry_check_in(job, busy, "none")
    \/ cleanup_stale_check_ins("none")
    \/ advance

SpecBusy == Init /\ [][NextBusy]_vars

\* The scheduler with the busy predicate an input and with the failures a
\* timer callback can meet: a query, a store write or the delivery of the
\* prompt raising.  Of the buttons only Sleep is kept, for the ticks that find
\* the recipient asleep.
NextTicks ==
    \/ start
    \/ handle_sleep_button
    \/ \E busy \in BOOLEAN : \E fault \in TickFaults : send_hourly_check_in(busy, fault)
    \/ \E job \in retry_jobs : \E busy \in BOOLEAN : \E fault \in {"none"} \cup SendFaults :
          retry_check_in(job, busy, fault)
    \/ \E fault \in SweepFaults : cleanup_stale_check_ins(fault)
    \/ advance

SpecTicks == Init /\ [][NextTicks]_vars

TypeOK ==
    /\ now \in Nat
    /\ Len(user_config) <= 1
    /\ \A i \in Ids : check_ins[i].status \in Statuses
    /\ pending_check_in_id \in {None} \cup Ids
    /\ replying \in {None} \cup Ids


-----------------------------------------------------------------------------
(* Properties *)

SentIds == {i \in Ids : check_ins[i].status = "sent"}

LogsOf(logs, id) == {k \in DOMAIN logs : logs[k].check_in_id = id}

WakeRan == lastOp' = "handle_wake_button"

SweepRan == lastOp' = "cleanup_stale_check_ins"

\* C1: in every reachable state at most one check-in has status 'sent'.
C1_AtMostOneSent == Cardinality(SentIds) <= 1

\* C2: in every reachable state get_pending_check_in returns the id of a
\* 'sent' record when one exists (the one of greatest sent_time when the
\* pointer is empty) and None when none exists.
C2_PendingIsSent ==
    \A id \in get_pending_check_in(pending_check_in_id, check_ins) :
        IF SentIds = {} THEN id = None
        ELSE /\ id \in SentIds
             /\ pending_check_in_id = None =>
                   \A j \in SentIds : check_ins[j].sent_time <= check_ins[id].sent_time

\* C3 as stated: once a record is completed, missed or sleeping, no step
\* changes its status.
C3_TerminalStatuses ==
    [][\A i \in Ids :
          check_ins[i].status \in {"completed", "missed", "sleeping"}
              => check_ins'[i].status = check_ins[i].status]_vars

\* C3 as amended: completed is terminal; a missed record changes only to
\* sleeping, by the wake reconciliation, or to completed, by a reply; a
\* sleeping record changes only to completed, by a reply.
C3_CompletedTerminal ==
    [][\A i \in Ids :
          /\ check_ins[i].status = "completed" => check_ins'[i].status = "completed"
          /\ (check_ins[i].status = "missed" /\ check_ins'[i].status # "missed") =>
                \/ WakeRan /\ check_ins'[i].status = "sleeping"
                \/ lastOp' = "handle_text_reply" /\ check_ins'[i].status = "completed"
          /\ (check_ins[i].status = "sleeping" /\ check_ins'[i].status # "sleeping") =>
                lastOp' = "handle_text_reply" /\ check_ins'[i].status = "completed"]_vars

\* C3 witness: a wake has just run over a window that holds a completed
\* record and a record it made sleeping.
C3_Witness ==
    /\ lastOp = "handle_wake_button"
    /\ ~no_sleep_start
    /\ \E i, j \in Ids :
          /\ check_ins[i].status = "completed"
          /\ check_ins[i].scheduled_time >= user_config[1].sleep_start_time
          /\ check_ins[i].scheduled_time >= default_wake_time(now)
          /\ check_ins[j].status = "sleeping"

\* C4: in every reachable state there is at most one activity log entry per
\* check_in_id.
C4_OneLogPerCheckIn ==
    \A k, l \in DOMAIN activity_logs :
        activity_logs[k].check_in_id = activity_logs[l].check_in_id => k = l

\* C5 as stated: a sweep moves a record from sent to missed if and only if it
\* is sent and at least 90 minutes have passed since its sent_time; it changes
\* nothing else.
C5_SweepAtNinety ==
    [][SweepRan =>
          /\ DOMAIN check_ins' = DOMAIN check_ins
          /\ \A i \in Ids :
                IF check_ins[i].status = "sent" /\ now - check_ins[i].sent_time >= 90
                THEN check_ins'[i] = [check_ins[i] EXCEPT !.status = "missed"]
                ELSE check_ins'[i] = check_ins[i]
          /\ UNCHANGED <<activity_logs, user_config, pending_check_in_id>>]_vars

\* C5 as amended: a sweep moves a record from sent to missed if and only if it
\* is sent and more than 90 minutes have passed since its sent_time (a record
\* exactly 90 minutes old stays sent); it changes nothing else.
C5_SweepOverNinety ==
    [][SweepRan =>
          /\ DOMAIN check_ins' = DOMAIN check_ins
          /\ \A i \in Ids :
                IF check_ins[i].status = "sent" /\ now - check_ins[i].sent_time > 90
                THEN check_ins'[i] = [check_ins[i] EXCEPT !.status = "missed"]
                ELSE check_ins'[i] = check_ins[i]
          /\ UNCHANGED <<activity_logs, user_config, pending_check_in_id>>]_vars

\* C5 witness: a sweep has just run; it found one record 120 minutes old
\* (missed now, and still sent at the sweep before, when it was 90 minutes
\* old) and left a younger sent record alone.
C5_Witness ==
    /\ lastOp = "cleanup_stale_check_ins"
    /\ \E i, j \in Ids :
          /\ check_ins[i].status = "missed"
          /\ now - check_ins[i].sent_time = 120
          /\ check_ins[j].status = "sent"
          /\ now - check_ins[j].sent_time = 60

\* C6: a wake with a recorded sleep start sets to sleeping every record whose
\* scheduled_time lies in [max(sleep_start_time, today at the default wake
\* time), now] and whose status is missed, sent or pending.
C6_WakeMarksWindow ==
    [][(WakeRan /\ ~no_sleep_start) =>
          \A i \in Ids :
              LET lo == retroactive_start(user_config[1].sleep_start_time, now')
              IN  (/\ check_ins[i].scheduled_time >= lo
                   /\ check_ins[i].scheduled_time <= now'
                   /\ check_ins[i].status \in {"missed", "sent", "pending"})
                  => check_ins'[i].status = "sleeping"]_vars

\* C7: in every reachable state every sleeping record has an activity log
\* entry of productivity_type 'sleeping'.
C7_SleepingHasSleepingLog ==
    \A i \in Ids :
        check_ins[i].status = "sleeping" =>
            \E k \in LogsOf(activity_logs, i) :
                activity_logs[k].productivity_type = "sleeping"

\* C8: a wake that directly follows a wake changes no record and no activity
\* log entry.
C8_WakeIdempotent ==
    [][(lastOp = "handle_wake_button" /\ WakeRan) =>
          (check_ins' = check_ins /\ activity_logs' = activity_logs)]_vars

\* C8 witness: a wake has just made a record sleeping and written its entry,
\* and the next wake can be pressed.
C8_Witness ==
    /\ lastOp = "handle_wake_button"
    /\ user_turn
    /\ \E i \in Ids :
          /\ check_ins[i].status = "sleeping"
          /\ \E k \in LogsOf(activity_logs, i) :
                activity_logs[k].productivity_type = "sleeping"

\* C9: a wake with no recorded sleep start (no config row, or
\* sleep_start_time NULL) returns 0 and changes no record, no activity log
\* entry and nothing in the recipient's config.
C9_WakeWithoutSleepIsNoop ==
    [][(WakeRan /\ (user_config = <<>> \/ user_config[1].sleep_start_time = Null)) =>
          /\ ret' = 0
          /\ check_ins' = check_ins
          /\ activity_logs' = activity_logs
          /\ user_config' = user_config]_vars

\* C9 witness: a wake has just run for a recipient that has a config row and
\* never slept, with a missed record in the store.
C9_Witness ==
    /\ lastOp = "handle_wake_button"
    /\ HasConfig
    /\ user_config[1].sleep_start_time = Null
    /\ \E i \in Ids : check_ins[i].status = "missed"

\* C10: a wake changes no record scheduled before sleep_start_time or after
\* the wake instant, and such a record gains no activity log entry.
C10_WakeFrame ==
    [][(WakeRan /\ ~no_sleep_start) =>
          \A i \in Ids :
              (\/ check_ins[i].scheduled_time < user_config[1].sleep_start_time
               \/ check_ins[i].scheduled_time > now')
              => /\ check_ins'[i] = check_ins[i]
                 /\ LogsOf(activity_logs', i) = LogsOf(activity_logs, i)]_vars

\* C10 witness: a wake with a recorded sleep start has just run, and a missed
\* record scheduled before sleep_start_time is still missed, with no entry.
C10_Witness ==
    /\ lastOp = "handle_wake_button"
    /\ ~no_sleep_start
    /\ \E i \in Ids :
          /\ check_ins[i].status = "missed"
          /\ check_ins[i].scheduled_time < user_config[1].sleep_start_time
          /\ LogsOf(activity_logs, i) = {}

\* C11: when the recipient is busy at the hourly tick at T and stays busy, the
\* retry checks are due at T+5, T+15 and T+25, and the one at T+25 is the last
\* of its chain: every retry job is the first, second or third of its chain
\* and is due 5, 15 or 25 minutes after the hour.
C11_RetrySchedule ==
    \A job \in retry_jobs :
        /\ job.retry_count \in 1..3
        /\ job.run_date % HourlyPeriod =
              (IF job.retry_count = 1 THEN 5 ELSE IF job.retry_count = 2 THEN 15 ELSE 25)

RetryRan(job) ==
    /\ lastOp' = "retry_check_in"
    /\ job \in retry_jobs
    /\ job.run_date = now
    /\ job \notin retry_jobs'

\* C12 as stated: a third retry that finds the recipient busy ends the chain
\* (no retry timer is left) and creates no record; a record is created only
\* by a tick or retry that does not find the recipient busy.
C12_AbandonAtThirdRetry ==
    [][/\ \A job \in retry_jobs :
              (RetryRan(job) /\ job.retry_count = 3 /\ busy_seen' = busy_seen + 1)
                  => (retry_jobs' = {} /\ check_ins' = check_ins)
       /\ Len(check_ins') > Len(check_ins) =>
              /\ lastOp' \in {"send_hourly_check_in", "retry_check_in"}
              /\ busy_seen' = busy_seen]_vars

\* C12 as amended: a third retry that finds the recipient busy schedules one
\* last timer; the callback of that timer (retry_count 4) gives the chain up:
\* it does not ask the busy predicate, schedules no timer and creates no
\* record.  A tick or retry that finds the recipient busy creates no record; a
\* record is created only by a tick or retry that does not find the recipient
\* busy.
C12_AbandonAtFourthTimer ==
    [][/\ \A job \in retry_jobs :
              /\ (RetryRan(job) /\ job.retry_count = 3 /\ busy_seen' = busy_seen + 1)
                    => \E last \in retry_jobs' : last.retry_count = 4
              /\ (RetryRan(job) /\ job.retry_count = 4)
                    => /\ retry_jobs' = retry_jobs \ {job}
                       /\ check_ins' = check_ins
                       /\ busy_seen' = busy_seen
       /\ \A job \in retry_jobs' : job.retry_count <= 4
       /\ busy_seen' > busy_seen => check_ins' = check_ins
       /\ Len(check_ins') > Len(check_ins) =>
              /\ lastOp' \in {"send_hourly_check_in", "retry_check_in"}
              /\ busy_seen' = busy_seen]_vars

\* C12 witness: the recipient was busy at the tick and at its three retries,
\* the last timer of the chain has run, no timer is left and no record was
\* created.
C12_Witness ==
    /\ lastOp = "retry_check_in"
    /\ busy_seen = 4
    /\ retry_jobs = {}
    /\ check_ins = <<>>

ReplyRan == lastOp' = "handle_text_reply"

\* C13: when the classifier raises while a reply to the outstanding check-in
\* is handled, the check-in the reply was for is completed, with its
\* response_time set, once the reply has been handled.
C13_CompletedWhenClassifierRaises ==
    [][(ReplyRan /\ "classifier" \in caught') =>
          /\ check_ins'[replying].status = "completed"
          /\ check_ins'[replying].response_time # Null]_vars

\* C14 as stated: whenever the classifier call, the parsing of its output or
\* a store write fails, analyze_activity returns the fallback judgment
\* (beneficial, 5).
C14_FallbackOnEveryFailure ==
    [][(ReplyRan /\ caught' # {}) => analysis' = fallback_analysis]_vars

\* C14 as amended: analyze_activity always returns a judgment to its caller.
\* It returns the fallback judgment (beneficial, 5) when the classifier call
\* raises, when its output is no JSON or when the INSERT of the activity log
\* fails; when only the UPDATE of the check-in fails, the failure is logged
\* and the classifier's judgment is returned, as when nothing fails.
C14_FailSoft ==
    [][ReplyRan =>
          /\ analysis' \in {fallback_analysis, classifier_analysis}
          /\ analysis' = fallback_analysis
                <=> caught' \cap {"classifier", "json", "save"} # {}]_vars

\* C14 witness: a reply has been handled whose INSERT of the activity log
\* failed: the fallback judgment was returned and nothing was written.
C14_Witness ==
    /\ lastOp = "handle_text_reply"
    /\ caught = {"save"}
    /\ analysis = fallback_analysis
    /\ activity_logs = <<>>
    /\ check_ins # <<>>

Asleep == HasConfig /\ user_config[1].is_sleeping

TickRan == lastOp' = "send_hourly_check_in"

\* C15: no check-in is created (no prompt dispatched) at a moment when the
\* recipient's is_sleeping flag is true, by the hourly tick or by a retry.
C15_NoDispatchWhileAsleep ==
    [][Len(check_ins') > Len(check_ins) => ~Asleep]_vars

\* C16: an hourly tick that finds the recipient asleep creates no check-in
\* and schedules no retry timer, whatever the busy predicate would answer: it
\* does not get to ask it.
C16_AsleepTickSkips ==
    [][(TickRan /\ Asleep) =>
          /\ check_ins' = check_ins
          /\ pending_check_in_id' = pending_check_in_id
          /\ retry_jobs' = retry_jobs
          /\ busy_seen' = busy_seen]_vars

\* C16 witness: an hourly tick has just run with the recipient asleep, and
\* there is no check-in and no retry timer.
C16_Witness ==
    /\ lastOp = "send_hourly_check_in"
    /\ Asleep
    /\ check_ins = <<>>
    /\ retry_jobs = {}

\* C17: in every reachable state of the recipient's config is_sleeping
\* implies that sleep_start_time is set, and a wake with a recorded sleep
\* start clears is_sleeping and leaves sleep_start_time as it was.
C17_SleepingHasStart ==
    [][/\ \A k \in DOMAIN user_config' :
              user_config'[k].is_sleeping => user_config'[k].sleep_start_time # Null
       /\ (WakeRan /\ ~no_sleep_start) =>
              /\ ~user_config'[1].is_sleeping
              /\ user_config'[1].sleep_start_time = user_config[1].sleep_start_time]_vars

\* C17 witness: a wake has just ended a sleep that was started earlier: the
\* recipient is awake and the sleep start is still recorded.
C17_Witness ==
    /\ lastOp = "handle_wake_button"
    /\ HasConfig
    /\ ~user_config[1].is_sleeping
    /\ user_config[1].sleep_start_time # Null
    /\ user_config[1].sleep_start_time < now
    /\ user_config[1].last_wake_time = now

\* C18: in every reachable state every check-in has scheduled_time <=
\* sent_time, and sent_time <= response_time when response_time is set.
C18_TimestampOrder ==
    \A i \in Ids :
        /\ check_ins[i].scheduled_time <= check_ins[i].sent_time
        /\ check_ins[i].response_time # Null =>
              check_ins[i].sent_time <= check_ins[i].response_time

\* C18 witness: a check-in was answered at an instant later than the one at
\* which it was sent.
C18_Witness ==
    \E i \in Ids :
        /\ check_ins[i].status = "completed"
        /\ check_ins[i].response_time # Null
        /\ check_ins[i].sent_time < check_ins[i].response_time

TimerRan == lastOp' \in {"send_hourly_check_in", "retry_check_in", "cleanup_stale_check_ins"}

\* C19: a failure inside a timer callback (hourly tick, retry or sweep) is
\* caught in it and disables no later tick: the scheduler keeps running with
\* both cron jobs in its job store, and an hourly tick that meets no failure
\* dispatches as if none had happened before.
C19_TicksSurviveFailures ==
    [][/\ (TimerRan /\ caught' # {}) =>
              /\ running'
              /\ cron_jobs' = {"hourly_check_in", "cleanup_check_ins"}
       /\ running' => {"hourly_check_in", "cleanup_check_ins"} \subseteq cron_jobs'
       /\ (TickRan /\ caught' = {} /\ HasConfig /\ ~Asleep /\ busy_seen' = busy_seen) =>
              /\ Len(check_ins') = Len(check_ins) + 1
              /\ check_ins'[Len(check_ins')] = new_check_in(now)]_vars

\* C19 witness: a timer callback has failed at an earlier hour, and an hourly
\* tick has just run without failure and dispatched a check-in, the second of
\* the store.
C19_Witness ==
    /\ faults > 0
    /\ lastOp = "send_hourly_check_in"
    /\ caught = {}
    /\ Len(check_ins) = 2
    /\ check_ins[2].sent_time = now
    /\ now - boot >= 2 * HourlyPeriod

\* C20: the sweep commutes with dispatch: in every reachable state, at the
\* instant of the state, mark_stale_as_missed followed by send_check_in gives
\* the same records, statuses and pending pointer as send_check_in followed
\* by mark_stale_as_missed.
C20_SweepCommutesWithDispatch ==
    LET swept_first == insert_check_in(mark_stale_as_missed(check_ins, now), now)
        sent_first  == mark_stale_as_missed(insert_check_in(check_ins, now), now)
    IN  /\ swept_first = sent_first
        /\ lastrowid(swept_first) = lastrowid(insert_check_in(check_ins, now))

\* C20 witness: the hourly tick and the sweep are both due, in either order,
\* and the sweep has a record to mark: one sent more than 90 minutes ago.
C20_Witness ==
    /\ running
    /\ now % HourlyPeriod = 0
    /\ fired = {}
    /\ ~Asleep
    /\ \E i \in Ids : check_ins[i].status = "sent" /\ check_ins[i].sent_time < now - StaleMinutes

\* C21: the sweep is idempotent: in every reachable state, at the instant of
\* the state, mark_stale_as_missed run twice leaves the records as
\* mark_stale_as_missed run once.
C21_SweepIdempotent ==
    mark_stale_as_missed(mark_stale_as_missed(check_ins, now), now)
        = mark_stale_as_missed(check_ins, now)

\* C21 witness: the sweep is due and has a record to mark, so that one run of
\* it changes the store.
C21_Witness ==
    /\ running
    /\ now % CleanupPeriod = 0
    /\ "cleanup_check_ins" \notin fired
    /\ mark_stale_as_missed(check_ins, now) # check_ins

DispatchRan == lastOp' \in {"send_hourly_check_in", "retry_check_in"} /\ check_ins' # check_ins

\* C22: a send_check_in that succeeds adds exactly one record, under a fresh
\* id, with status 'sent' and scheduled_time = sent_time = now, sets the
\* pending pointer to that id (the id it returns) and changes no record that
\* was there.
C22_DispatchAddsOneSent ==
    [][DispatchRan =>
          /\ Len(check_ins') = Len(check_ins) + 1
          /\ \A i \in Ids : check_ins'[i] = check_ins[i]
          /\ LET id == Len(check_ins')
             IN  /\ id \notin Ids
                 /\ check_ins'[id].status = "sent"
                 /\ check_ins'[id].scheduled_time = now
                 /\ check_ins'[id].sent_time = now
                 /\ check_ins'[id].response_time = Null
                 /\ pending_check_in_id' = id]_vars

\* C22 witness: a dispatch has just added a second record while the first
\* was still unanswered: the pointer has moved to the new record.
C22_Witness ==
    /\ lastOp = "send_hourly_check_in"
    /\ Len(check_ins) = 2
    /\ check_ins[1].status = "sent"
    /\ check_ins[2] = [scheduled_time |-> now, sent_time |-> now,
                       response_time |-> Null, status |-> "sent"]
    /\ pending_check_in_id = 2

\* C23: when a reply to the pending check-in is handled and classification
\* succeeds, that record becomes completed with response_time set, exactly
\* one activity log entry is added and it refers to that record, the pending
\* pointer is emptied, and no other record changes.
C23_ReplyCompletes ==
    [][(ReplyRan /\ caught' = {}) =>
          /\ DOMAIN check_ins' = DOMAIN check_ins
          /\ check_ins'[replying] =
                [check_ins[replying] EXCEPT !.status = "completed", !.response_time = now]
          /\ \A i \in Ids \ {replying} : check_ins'[i] = check_ins[i]
          /\ Len(activity_logs') = Len(activity_logs) + 1
          /\ SubSeq(activity_logs', 1, Len(activity_logs)) = activity_logs
          /\ activity_logs'[Len(activity_logs')].check_in_id = replying
          /\ pending_check_in_id' = None]_vars

\* C23 witness: a reply has just completed the second of two check-ins; the
\* first is still unanswered and the one entry of the log is for the second.
C23_Witness ==
    /\ lastOp = "handle_text_reply"
    /\ caught = {}
    /\ Len(check_ins) = 2
    /\ check_ins[1].status = "sent"
    /\ check_ins[2].status = "completed"
    /\ check_ins[2].response_time = now
    /\ Len(activity_logs) = 1
    /\ activity_logs[1].check_in_id = 2
    /\ pending_check_in_id = None

\* C24: an hourly tick that finds the recipient awake and busy schedules
\* exactly one retry timer, the first of its chain, and creates no check-in;
\* one that finds the recipient awake and not busy creates exactly one
\* check-in and schedules no retry timer.
C24_TickRetriesOrDispatches ==
    [][(TickRan /\ HasConfig /\ ~Asleep) =>
          IF busy_seen' # busy_seen
          THEN /\ check_ins' = check_ins
               /\ \E job \in retry_jobs' \ retry_jobs :
                     /\ retry_jobs' = retry_jobs \cup {job}
                     /\ job.retry_count = 1
                     /\ job.run_date = now + 5
          ELSE /\ Len(check_ins') = Len(check_ins) + 1
               /\ retry_jobs' = retry_jobs]_vars

\* C24 witness: an hourly tick has just found the recipient awake and busy:
\* its retry timer is the only one and no check-in was created.
C24_Witness ==
    /\ lastOp = "send_hourly_check_in"
    /\ HasConfig
    /\ ~Asleep
    /\ busy_seen = 1
    /\ Cardinality(retry_jobs) = 1
    /\ check_ins = <<>>

SleepRan == lastOp' = "handle_sleep_button"

\* C25: after a wake that found a recorded sleep start, is_sleeping is false
\* and last_wake_time is the wake instant, so an hourly tick that finds the
\* recipient awake and not busy dispatches; from a Sleep until the next Wake
\* the recipient stays asleep and every hourly tick is skipped.
C25_WakeResumesTicks ==
    [][/\ (WakeRan /\ ~no_sleep_start) =>
              /\ ~user_config'[1].is_sleeping
              /\ user_config'[1].last_wake_time = now
       /\ (TickRan /\ HasConfig /\ ~Asleep /\ busy_seen' = busy_seen) =>
              Len(check_ins') = Len(check_ins) + 1
       /\ (SleepRan /\ HasConfig) => user_config'[1].is_sleeping
       /\ (Asleep /\ ~WakeRan) => user_config'[1].is_sleeping
       /\ (TickRan /\ Asleep) =>
              (check_ins' = check_ins /\ retry_jobs' = retry_jobs)]_vars

\* C25 witness: the recipient slept through the tick of one hour (no check-in
\* of that hour exists), woke, and the tick of the next hour has just
\* dispatched.
C25_Witness ==
    /\ lastOp = "send_hourly_check_in"
    /\ HasConfig
    /\ ~Asleep
    /\ user_config[1].sleep_start_time # Null
    /\ user_config[1].sleep_start_time <= now - HourlyPeriod
    /\ user_config[1].last_wake_time > now - HourlyPeriod
    /\ retry_jobs = {}
    /\ busy_seen = 0
    /\ Len(check_ins) = 1
    /\ check_ins[1].sent_time = now

\* C26: a Sleep press sets is_sleeping and sets sleep_start_time to the
\* instant of the press, also when the recipient is asleep already (the later
\* instant replaces the earlier one); it leaves every check-in, every
\* activity log entry, last_wake_time and the pending pointer as they were.
C26_SleepFrame ==
    [][(SleepRan /\ HasConfig) =>
          /\ user_config' = SetRow([user_config[1] EXCEPT !.is_sleeping = TRUE,
                                                          !.sleep_start_time = now])
          /\ UNCHANGED <<check_ins, activity_logs, pending_check_in_id>>]_vars

\* C26 witness: Sleep has just been pressed by a recipient who went to sleep
\* at an earlier instant and has not woken since (the ticks of the hours
\* since then made no check-in), with a check-in and its entry in the store.
C26_Witness ==
    /\ lastOp = "handle_sleep_button"
    /\ Asleep
    /\ user_config[1].sleep_start_time = now
    /\ user_config[1].last_wake_time = Null
    /\ check_ins # <<>>
    /\ activity_logs # <<>>
    /\ pending_check_in_id = None
    /\ \A i \in Ids : check_ins[i].sent_time <= now - 2 * HourlyPeriod

\* The hourly ticks that fit between the start instant and the horizon.
MaxRecords == (MaxHalfHours + 1) \div 2 + 1

IsSent(i) == i \in Ids /\ check_ins[i].status = "sent"

\* C27: no check-in is still 'sent' more than 90 minutes plus one maintenance
\* period after its sent_time, and every check-in that is 'sent' leaves
\* 'sent' (for those whose 90 minutes and one period end before the clock of
\* the model stops).
C27_SentLeavesSent ==
    /\ [](\A i \in Ids :
             check_ins[i].status = "sent" =>
                 now - check_ins[i].sent_time <= StaleMinutes + CleanupPeriod)
    /\ \A i \in 1..MaxRecords :
          (IsSent(i) /\ check_ins[i].sent_time + StaleMinutes + CleanupPeriod <= horizon)
              ~> ~IsSent(i)

\* C27 witness: a sweep has just marked a check-in that nobody answered, 90
\* minutes and one maintenance period after it was sent.
C27_Witness ==
    /\ lastOp = "cleanup_stale_check_ins"
    /\ \E i \in Ids :
          /\ check_ins[i].status = "missed"
          /\ now - check_ins[i].sent_time = StaleMinutes + CleanupPeriod
          /\ LogsOf(activity_logs, i) = {}

\* C28: a check-in is 'sent' only if its prompt was delivered: when the
\* delivery fails inside send_check_in, the attempt leaves no record in the
\* store and the pending pointer as it was.
C28_SentOnlyIfDelivered ==
    [][(TimerRan /\ "transport" \in caught') =>
          /\ check_ins' = check_ins
          /\ pending_check_in_id' = pending_check_in_id]_vars

\* C29: once a reply has been handled and the pointer cleared,
\* get_pending_check_in returns None (until the next dispatch), whether or
\* not the classification succeeded and whether or not an older unanswered
\* check-in exists.
C29_NoPendingAfterReply ==
    [][ReplyRan => get_pending_check_in(pending_check_in_id', check_ins') = {None}]_vars

\* C30: a Wake pressed while the recipient is not asleep changes the status
\* of no check-in and creates no activity log entry, also when an earlier
\* sleep has left its sleep_start_time behind.
C30_WakeWhileAwakeIsNoop ==
    [][(WakeRan /\ HasConfig /\ ~Asleep) =>
          /\ \A i \in Ids : check_ins'[i].status = check_ins[i].status
          /\ activity_logs' = activity_logs]_vars

=============================================================================
